---- MODULE Spec2Model ----
(***************************************************************************)
(* geextract.sar.sentinel_one: the Sentinel-1 GRD time-series extractor    *)
(* (ts_extract) and the product-identifier date parser (get_date).         *)
(*                                                                         *)
(* Spec      ts_extract: calls made one after the other on a clock that    *)
(*           advances, against a remote platform whose reply is an         *)
(*           environment choice.                                           *)
(* SpecDate  get_date applied to filenames drawn from a bounded family.    *)
(***************************************************************************)
EXTENDS Integers, Sequences, FiniteSets, TLC

VARIABLES
    today,        \* the calendar day, as a day number (datetime.today())
    default_end,  \* the default value bound to ts_extract's parameter `end`
    pc,           \* "idle" | "request" (blocked in getInfo) | "done"
    args,         \* the arguments of the call in progress
    query,        \* the query handed to getInfo, NoQuery before that
    requests,     \* getInfo calls issued by the call in progress
    matched,      \* images the query matched, when the platform executed it
    reply,        \* what getInfo did: returned, or raised
    result,       \* what ts_extract returned or raised
    filename,     \* get_date: the filename argument, a sequence of characters
    start_only,   \* get_date: the start_only argument
    gd            \* get_date: what it returned or raised

tsvars == <<today, default_end, pc, args, query, requests, matched, reply, result>>
gdvars == <<filename, start_only, gd>>
vars == <<today, default_end, pc, args, query, requests, matched, reply, result,
          filename, start_only, gd>>

----------------------------------------------------------------------------
(* Bounds of the model *)

\* the clock runs over the days 0..MaxDay
MaxDay == 2
\* the remote archive holds at most MaxImages images matching a query
MaxImages == 2

----------------------------------------------------------------------------
(* Python values *)

\* None, and a value that is present
None == <<>>
Some(v) == <<v>>

----------------------------------------------------------------------------
(* Module-level constants of sentinel_one.py *)

MODES == {"IW", "EW", "SM"}

POLARIZATIONS == <<"VV", "VH">>

ORBITS == <<"ASCENDING", "DESCENDING">>

\* the member names of Orbit exchanged
OrbitSwapped(v) == IF v = 0 THEN "DESCENDING" ELSE "ASCENDING"

\* class Orbit(Enum): the name of the member whose value is v (v is 0 or 1)
Orbit(v) == IF v = 0 THEN "ASCENDING" ELSE "DESCENDING"

\* the fixed ground sampling distance passed to reduceRegion and getRegion
Scale == 10

----------------------------------------------------------------------------
(* Arguments of ts_extract *)

\* polar is None, a list of strings, or any other value (a string)
PolarNone == [tag |-> "none", items |-> <<>>]
PolarList(l) == [tag |-> "list", items |-> l]
PolarStr(s) == [tag |-> "str", items |-> <<s>>]

NoArgs == [start |-> 0, end |-> None, mode |-> "", lon |-> None, lat |-> None,
           radius |-> None, feature |-> None, polar |-> PolarNone,
           orbit |-> None, stats |-> ""]

ModeValues == {"IW", "EW", ""}
PolarValues == {PolarNone, PolarStr("VV"), PolarStr("HH"),
                PolarList(<<"VV", "VH">>), PolarList(<<"VH">>),
                PolarList(<<"VV", "HH">>)}
OrbitValues == {None, Some(0), Some(1), Some(2)}
StatsValues == {"mean", "median", "mode"}
RadiusValues == {None, Some(0), Some(500)}
FeatureValues == {None, Some("polygonA")}
PointValues == {None, Some(-37), Some(44)}
EndValues == {None, Some(MaxDay)}

\* The calls the model makes.  lon and lat are left out (None) only together and
\* only when a feature is given: without a feature they go to ee.Geometry.Point.
ArgValues ==
    { a \in [start : {0}, end : EndValues, mode : ModeValues,
             lon : PointValues, lat : PointValues, radius : RadiusValues,
             feature : FeatureValues, polar : PolarValues,
             orbit : OrbitValues, stats : StatsValues] :
        /\ (a.lon = None) = (a.lat = None)
        /\ a.lon = None => a.feature # None
        /\ a.lon # None => a.lon = a.lat }

----------------------------------------------------------------------------
(* Results *)

NoReply == [kind |-> "none", reason |-> "", rows |-> <<>>]
NoResult == [type |-> "none", msg |-> "", out |-> <<>>]

Raise(type, msg) == [type |-> type, msg |-> msg, out |-> <<>>]
Return(out) == [type |-> "ok", msg |-> "", out |-> out]

MsgMode == "Unknown mode"
MsgPolar == "Unknown polarization"
MsgOrbit == "Unknown orbit type"
MsgStats == "Unknown spatial aggregation function"
MsgNoData == "No data found for these parameters"

----------------------------------------------------------------------------
(* ts_extract: CHECK INPUTS *)

Range(f) == { f[i] : i \in DOMAIN f }

\* `mode not in MODES`
ModeUnknown(a) == a.mode \notin MODES

\* the polar branch raises: polar is a list and one element is not in POLARIZATIONS
PolarUnknown(a) ==
    /\ a.polar.tag = "list"
    /\ \E i \in DOMAIN a.polar.items : a.polar.items[i] \notin Range(POLARIZATIONS)

\* polar after the polar branch: the default for None, a list as it is, anything
\* else wrapped into a one-element list
PolarOf(a) ==
    IF a.polar.tag = "none" THEN POLARIZATIONS
    ELSE IF a.polar.tag = "list" THEN a.polar.items
    ELSE a.polar.items

\* `orbit is not None and orbit not in [0,1]`
OrbitUnknown(a) == a.orbit # None /\ a.orbit[1] \notin {0, 1}

\* orbit after the orbit branch: None, or the name of the Orbit member
OrbitOf(a) == IF a.orbit = None THEN None ELSE Some(Orbit(a.orbit[1]))

\* the first check that raises, in the order of the code, or None
ValidationError(a) ==
    IF ModeUnknown(a) THEN Some(MsgMode)
    ELSE IF PolarUnknown(a) THEN Some(MsgPolar)
    ELSE IF OrbitUnknown(a) THEN Some(MsgOrbit)
    ELSE None

----------------------------------------------------------------------------
(* ts_extract: INITIALIZING and FILTERING COLLECTION *)

\* `radius is not None or feature is not None`, with the feature forgotten
IsRegionRadiusOnly(a) == a.radius # None

\* `radius is not None or feature is not None`
IsRegion(a) == a.radius # None \/ a.feature # None

\* the if/elif chain over stats: the reducer, or None where the chain raises
Reducer(stats) ==
    IF stats = "mean" THEN Some("mean")
    ELSE IF stats = "median" THEN Some("median")
    ELSE IF stats = "max" THEN Some("max")
    ELSE IF stats = "min" THEN Some("min")
    ELSE None

Polygon(coords) ==
    [shape |-> "Polygon", coords |-> coords, lon |-> None, lat |-> None, buffer |-> None]
Point(lon, lat) ==
    [shape |-> "Point", coords |-> None, lon |-> lon, lat |-> lat, buffer |-> None]
Buffer(g, radius) == [g EXCEPT !.buffer = radius]

\* the geometry, with the radius taken before the feature
GeometryRadiusFirst(a) ==
    IF IsRegion(a)
    THEN IF a.radius # None
         THEN Buffer(Point(a.lon, a.lat), a.radius)
         ELSE Polygon(a.feature)
    ELSE Point(a.lon, a.lat)

\* the geometry of the query: the feature's polygon, else the buffered point in
\* the region branch; the point in the point branch
Geometry(a) ==
    IF IsRegion(a)
    THEN IF a.feature # None
         THEN Polygon(a.feature)
         ELSE Buffer(Point(a.lon, a.lat), a.radius)
    ELSE Point(a.lon, a.lat)

NoQuery == [built |-> FALSE, collection |-> "", startDate |-> 0, endDate |-> 0,
            instrumentMode |-> "", orbitPass |-> None, bands |-> <<>>,
            kind |-> "", reducer |-> None, geometry |-> Point(None, None),
            scale |-> 0]

\* the expression getInfo is called on, for validated arguments a and the value
\* end that the parameter `end` is bound to
BuildQuery(a, end) ==
    [built |-> TRUE,
     collection |-> "COPERNICUS/S1_GRD",
     startDate |-> a.start,
     endDate |-> end,
     instrumentMode |-> a.mode,
     orbitPass |-> OrbitOf(a),
     bands |-> PolarOf(a),
     kind |-> IF IsRegion(a) THEN "region" ELSE "point",
     reducer |-> IF IsRegion(a) THEN Reducer(a.stats) ELSE None,
     geometry |-> Geometry(a),
     scale |-> Scale]

\* the value bound to `end`: the caller's, else the default of the signature
EndOf(a) == IF a.end = None THEN default_end ELSE a.end[1]

----------------------------------------------------------------------------
(* The remote platform and the response-flattening helpers *)

\* The platform is outside the repository; what getInfo does is a choice of the
\* environment.  Either it executes the query over the n images that match, or
\* it fails for a reason that has nothing to do with the data.
\*   - getRegion over no image fails with the platform's exception (the
\*     "no data for this orbit" case of the test suite);
\*   - the mapped reduction over no image has nothing to fail on and may come
\*     back as a feature collection without features;
\*   - n > 0 images come back as n rows (point) or n features (region).
PointRow(q) == {"id", "longitude", "latitude", "time"} \cup Range(q.bands)
RegionFeature(q) == Range(q.bands)

EENoData == [kind |-> "EEException", reason |-> "nodata", rows |-> <<>>]
EEOther == [kind |-> "EEException", reason |-> "computation timed out", rows |-> <<>>]
ConnectionFailure == [kind |-> "ConnectionError", reason |-> "connection reset", rows |-> <<>>]
Returned(rows) == [kind |-> "ok", reason |-> "", rows |-> rows]

Executed(q, n) ==
    IF n = 0
    THEN IF q.kind = "point"
         THEN {EENoData}
         ELSE {EENoData, Returned(<<>>)}
    ELSE IF q.kind = "point"
         THEN {Returned([i \in 1..n |-> PointRow(q)])}
         ELSE {Returned([i \in 1..n |-> RegionFeature(q)])}

GetInfoOutcomes(q) ==
    UNION { { [matched |-> Some(n), reply |-> r] : r \in Executed(q, n) } :
            n \in 0..MaxImages }
    \cup { [matched |-> None, reply |-> r] : r \in {EEOther, ConnectionFailure} }

\* geextract.simplify: one mapping per feature, the identifier and the
\* feature's properties
simplify(fc) == [i \in DOMAIN fc |-> {"id"} \cup fc[i]]

\* geextract.dictify: one mapping per row of the table, keyed by its header
dictify(l) == [i \in DOMAIN l |-> l[i]]

\* d.pop(key, None) for every d of out
Pop(out, key) == [i \in DOMAIN out |-> out[i] \ {key}]

\* ts_extract from the return of getInfo on: ee.EEException becomes ValueError,
\* any other exception goes through, a response is flattened
Finish(q, rep) ==
    IF rep.kind = "EEException"
    THEN Raise("ValueError", MsgNoData)
    ELSE IF rep.kind # "ok"
         THEN Raise(rep.kind, rep.reason)
         ELSE IF q.kind = "region"
              THEN Return(simplify(rep.rows))
              ELSE Return(Pop(Pop(Pop(dictify(rep.rows), "longitude"), "latitude"), "time"))

----------------------------------------------------------------------------
(* The ts_extract state machine *)

InitTs ==
    /\ today = 0
    /\ default_end = today          \* `end = datetime.today()` in the signature
    /\ pc = "idle"
    /\ args = NoArgs
    /\ query = NoQuery
    /\ requests = 0
    /\ matched = None
    /\ reply = NoReply
    /\ result = NoResult

\* a day passes between two calls
Tick ==
    /\ pc = "idle"
    /\ today < MaxDay
    /\ today' = today + 1
    /\ UNCHANGED <<default_end, pc, args, query, requests, matched, reply, result>>
    /\ UNCHANGED gdvars

\* ts_extract(a) up to the point where it raises or blocks in getInfo
Call(a) ==
    /\ pc = "idle"
    /\ args' = a
    /\ IF ValidationError(a) # None
       THEN /\ pc' = "done"
            /\ result' = Raise("ValueError", ValidationError(a)[1])
            /\ query' = NoQuery
            /\ requests' = 0
       ELSE IF IsRegion(a) /\ Reducer(a.stats) = None
       THEN /\ pc' = "done"
            /\ result' = Raise("ValueError", MsgStats)
            /\ query' = NoQuery
            /\ requests' = 0
       ELSE /\ pc' = "request"
            /\ result' = NoResult
            /\ query' = BuildQuery(a, EndOf(a))
            /\ requests' = 1
    /\ UNCHANGED <<today, default_end, matched, reply>>
    /\ UNCHANGED gdvars

\* getInfo returns or raises, and ts_extract runs to its end
GetInfoReply ==
    /\ pc = "request"
    /\ \E o \in GetInfoOutcomes(query) :
          /\ matched' = o.matched
          /\ reply' = o.reply
          /\ result' = Finish(query, o.reply)
    /\ pc' = "done"
    /\ UNCHANGED <<today, default_end, args, query, requests>>
    /\ UNCHANGED gdvars

\* the caller has the outcome; the next call starts afresh
Finished ==
    /\ pc = "done"
    /\ pc' = "idle"
    /\ args' = NoArgs
    /\ query' = NoQuery
    /\ requests' = 0
    /\ matched' = None
    /\ reply' = NoReply
    /\ result' = NoResult
    /\ UNCHANGED <<today, default_end>>
    /\ UNCHANGED gdvars

----------------------------------------------------------------------------
(* get_date: the compiled pattern p0 *)

\* Strings are sequences of one-character strings.
Digits == <<"0", "1", "2", "3", "4", "5", "6", "7", "8", "9">>

\* \d and \w, over the characters that the filenames of the model are made of
DigitClass == Range(Digits)
WordClass ==
    DigitClass \cup {"_"} \cup
    {"A", "B", "C", "D", "E", "F", "G", "H", "I", "J", "K", "L", "M",
     "N", "O", "P", "Q", "R", "S", "T", "U", "V", "W", "X", "Y", "Z"}

\* field values, as sequences of characters
S1A_ == <<"S", "1", "A">>
S1B_ == <<"S", "1", "B">>
S2A_ == <<"S", "2", "A">>
IW_ == <<"I", "W">>
SW_ == <<"S", "W">>
SM_ == <<"S", "M">>
EW_ == <<"E", "W">>
D20190105 == <<"2", "0", "1", "9", "0", "1", "0", "5">>
D20200229 == <<"2", "0", "2", "0", "0", "2", "2", "9">>
D20190230 == <<"2", "0", "1", "9", "0", "2", "3", "0">>
D20191305 == <<"2", "0", "1", "9", "1", "3", "0", "5">>
D00000101 == <<"0", "0", "0", "0", "0", "1", "0", "1">>
D20190106 == <<"2", "0", "1", "9", "0", "1", "0", "6">>
D20190231 == <<"2", "0", "1", "9", "0", "2", "3", "1">>
T000740 == <<"0", "0", "0", "7", "4", "0">>
T240000 == <<"2", "4", "0", "0", "0", "0">>
T235960 == <<"2", "3", "5", "9", "6", "0">>
T000805 == <<"0", "0", "0", "8", "0", "5">>
T006000 == <<"0", "0", "6", "0", "0", "0">>
OrbitNumber == <<"0", "2", "5", "3", "3", "5">>
TakeId == <<"0", "2", "C", "D", "C", "8">>

\* The pattern is a triple-quoted literal compiled WITHOUT re.VERBOSE: the line
\* break and the eight spaces that precede every line of the literal are part
\* of the pattern and match themselves.
Indent == <<"\n", " ", " ", " ", " ", " ", " ", " ", " ">>

\* an item of a pattern matches n characters: one of the alternatives alts, or
\* n characters of the class cls
Lit(cs) == [name |-> "", alts |-> {cs}, cls |-> {}, n |-> Len(cs)]
Alt(name, alts, n) == [name |-> name, alts |-> alts, cls |-> {}, n |-> n]
Class(name, cls, n) == [name |-> name, alts |-> {}, cls |-> cls, n |-> n]

\* the product-identifier pattern with ws standing between its lines
Pattern(ws) ==
    << Lit(ws),
       Alt("sensor", {S1A_, S1B_}, 3), Lit(<<"_">> \o ws),
       Alt("acquisition_mode", {IW_, SW_, SM_}, 2), Lit(<<"_", "G", "R", "D">> \o ws),
       Alt("resolution", {<<"M">>, <<"H">>}, 1), Lit(<<"_">> \o ws),
       Class("processing_level", DigitClass, 1), Lit(<<"S", "D", "V", "_">> \o ws),
       Class("start_date", DigitClass, 8), Lit(<<"T">> \o ws),
       Class("start_time", DigitClass, 6), Lit(<<"_">> \o ws),
       Class("end_date", DigitClass, 8), Lit(<<"T">> \o ws),
       Class("end_time", DigitClass, 6), Lit(<<"_">> \o ws),
       Class("absolute_orbit_number", WordClass, 6), Lit(<<"_">> \o ws),
       Class("mission_data_take_id", WordClass, 6), Lit(<<"_">> \o ws),
       Class("product_unique_id", WordClass, 4), Lit(ws) >>

\* p0 as the code compiles it
p0 == Pattern(Indent)

ItemMatches(it, chunk) ==
    IF it.alts # {}
    THEN chunk \in it.alts
    ELSE \A i \in DOMAIN chunk : chunk[i] \in it.cls

\* the items k.. of pat match s from position pos on
RECURSIVE MatchItems(_, _, _, _)
MatchItems(pat, k, s, pos) ==
    IF k > Len(pat) THEN TRUE
    ELSE /\ pos + pat[k].n - 1 <= Len(s)
         /\ ItemMatches(pat[k], SubSeq(s, pos, pos + pat[k].n - 1))
         /\ MatchItems(pat, k + 1, s, pos + pat[k].n)

\* the number of characters the items before item k match
RECURSIVE Offset(_, _)
Offset(pat, k) == IF k = 1 THEN 0 ELSE Offset(pat, k - 1) + pat[k - 1].n

\* p.search(s): the leftmost position where pat matches, or None
search(pat, s) ==
    LET hits == { i \in 1..(Len(s) + 1) : MatchItems(pat, 1, s, i) }
    IN  IF hits = {} THEN None
        ELSE Some(CHOOSE i \in hits : \A j \in hits : i <= j)

\* m.group(name) of the match of pat in s at position at
group(pat, s, at, name) ==
    LET k == CHOOSE i \in DOMAIN pat : pat[i].name = name
    IN  SubSeq(s, at + Offset(pat, k), at + Offset(pat, k) + pat[k].n - 1)

----------------------------------------------------------------------------
(* get_date: datetime.strptime(..., '%Y%m%dT%H%M%S').date() *)

DigitValue(c) == (CHOOSE i \in DOMAIN Digits : Digits[i] = c) - 1

\* int() of a sequence of digits
RECURSIVE Number(_)
Number(cs) ==
    IF cs = <<>> THEN 0
    ELSE 10 * Number(SubSeq(cs, 1, Len(cs) - 1)) + DigitValue(cs[Len(cs)])

IsLeap(y) == y % 4 = 0 /\ (y % 100 # 0 \/ y % 400 = 0)

DaysInMonth(y, m) ==
    IF m = 2 THEN (IF IsLeap(y) THEN 29 ELSE 28)
    ELSE IF m \in {4, 6, 9, 11} THEN 30 ELSE 31

\* strptime of the 8 digits d8, "T" and the 6 digits t6, then .date(): the date,
\* or None where strptime raises ValueError.  On 8+6 digits the directives can
\* only split 4-2-2 and 2-2-2.
strptime(d8, t6) ==
    LET year == Number(SubSeq(d8, 1, 4))
        month == Number(SubSeq(d8, 5, 6))
        day == Number(SubSeq(d8, 7, 8))
        hour == Number(SubSeq(t6, 1, 2))
        minute == Number(SubSeq(t6, 3, 4))
        second == Number(SubSeq(t6, 5, 6))
    IN  IF /\ year >= 1
           /\ month \in 1..12
           /\ day >= 1 /\ day <= DaysInMonth(year, month)
           /\ hour <= 23 /\ minute <= 59 /\ second <= 59
        THEN Some([year |-> year, month |-> month, day |-> day])
        ELSE None

----------------------------------------------------------------------------
(* get_date *)

NotCalled == [type |-> "none", msg |-> "", out |-> <<>>]

get_date(fn, so) ==
    LET m == search(p0, fn)
    IN  IF m # None
        THEN LET start_d == strptime(group(p0, fn, m[1], "start_date"),
                                     group(p0, fn, m[1], "start_time"))
                 end_d == strptime(group(p0, fn, m[1], "end_date"),
                                   group(p0, fn, m[1], "end_time"))
             IN  IF start_d = None
                 THEN [type |-> "ValueError", msg |-> "strptime", out |-> <<>>]
                 ELSE IF ~so
                      THEN IF end_d = None
                           THEN [type |-> "ValueError", msg |-> "strptime", out |-> <<>>]
                           ELSE [type |-> "pair", msg |-> "", out |-> <<start_d[1], end_d[1]>>]
                      ELSE [type |-> "date", msg |-> "", out |-> <<start_d[1]>>]
        ELSE [type |-> "ValueError", msg |-> "Unknown pattern", out |-> <<>>]

----------------------------------------------------------------------------
(* The filenames get_date is applied to *)

Sensors == {S1A_, S1B_, S2A_}
AcquisitionModes == {IW_, SW_, EW_}
StartDates == {D20190105, D20200229, D20190230, D20191305, D00000101}
StartTimes == {T000740, T240000, T235960}
EndDates == {D20190105, D20190106, D20190231}
EndTimes == {T000805, T006000}
UniqueIds == {<<"E", "4", "C", "2">>, <<"E", "4">>}

\* the fields in the order of the grammar, each preceded by ws, and tail last
Compose(ws, tail, sensor, acq, sd, st, ed, et, uid) ==
    ws \o sensor \o <<"_">> \o ws \o acq \o <<"_", "G", "R", "D">> \o ws \o <<"H">>
    \o <<"_">> \o ws \o <<"1">> \o <<"S", "D", "V", "_">> \o ws \o sd \o <<"T">>
    \o ws \o st \o <<"_">> \o ws \o ed \o <<"T">> \o ws \o et \o <<"_">>
    \o ws \o OrbitNumber \o <<"_">> \o ws \o TakeId \o <<"_">> \o ws \o uid \o tail

\* Product identifiers as documented (no white space), the same with the white
\* space of the literal between the fields, and both with characters around.
Filenames ==
    { pre \o Compose(ws, tail, sensor, acq, sd, st, ed, et, uid) \o post :
        pre \in {<<>>, <<"X">>}, post \in {<<>>, <<".">>},
        ws \in {<<>>, Indent}, tail \in {<<>>, Indent},
        sensor \in Sensors, acq \in AcquisitionModes,
        sd \in StartDates, st \in StartTimes, ed \in EndDates, et \in EndTimes,
        uid \in UniqueIds }

InitGd ==
    /\ filename = <<>>
    /\ start_only = TRUE
    /\ gd = NotCalled

GetDate ==
    /\ gd = NotCalled
    /\ gd' = get_date(filename, start_only)
    /\ UNCHANGED <<filename, start_only>>
    /\ UNCHANGED tsvars

----------------------------------------------------------------------------
(* Specifications *)

Init == InitTs /\ InitGd

Next ==
    \/ Tick
    \/ \E a \in ArgValues : Call(a)
    \/ GetInfoReply
    \/ Finished

Spec == Init /\ [][Next]_vars

InitDate ==
    /\ InitTs
    /\ filename \in Filenames
    /\ start_only \in BOOLEAN
    /\ gd = NotCalled

NextDate == GetDate

SpecDate == InitDate /\ [][NextDate]_vars

----------------------------------------------------------------------------
(* What the claims speak of, stated apart from the code *)

\* the documented product-identifier grammar: the fields, nothing between them
Grammar == Pattern(<<>>)

\* fn matches the documented grammar exactly, from its first character to its last
MatchesGrammar(fn) ==
    /\ Len(fn) = Offset(Grammar, Len(Grammar) + 1)
    /\ MatchItems(Grammar, 1, fn, 1)

\* the date written in 8 digits, read literally
EncodedDate(d8) ==
    [year |-> Number(SubSeq(d8, 1, 4)),
     month |-> Number(SubSeq(d8, 5, 6)),
     day |-> Number(SubSeq(d8, 7, 8))]

\* the 8+6 digits name a day of the calendar and a time of the day
IsCalendar(d8, t6) ==
    /\ EncodedDate(d8).year \in 1..9999
    /\ EncodedDate(d8).month \in 1..12
    /\ EncodedDate(d8).day \in 1..DaysInMonth(EncodedDate(d8).year, EncodedDate(d8).month)
    /\ Number(SubSeq(t6, 1, 2)) \in 0..23
    /\ Number(SubSeq(t6, 3, 4)) \in 0..59
    /\ Number(SubSeq(t6, 5, 6)) \in 0..59

GrammarField(fn, name) == group(Grammar, fn, 1, name)

\* a value of polar, single or in a list, that is neither VV nor VH
PolarOutside(a) ==
    \E i \in DOMAIN a.polar.items : a.polar.items[i] \notin {"VV", "VH"}

ModeAllowed(a) == a.mode \in {"IW", "EW", "SM"}
OrbitAllowed(a) == a.orbit \in {None, Some(0), Some(1)}
StatsAllowed(a) == a.stats \in {"mean", "median", "max", "min"}
RegionCall(a) == a.radius # None \/ a.feature # None

ValidationMessages == {MsgMode, MsgPolar, MsgOrbit, MsgStats}

\* the call in progress ended in an error of validation, before any request
RejectedByValidation ==
    /\ pc = "done"
    /\ result.type = "ValueError"
    /\ result.msg \in ValidationMessages
    /\ requests = 0

----------------------------------------------------------------------------
(* C1 *)

\* C1: for every filename that matches the documented grammar, get_date returns
\* the date encoded in start_date+start_time, and with start_only=False the
\* pair (start date, end date); it does not raise.  Stated for the filenames
\* whose fields are days of the calendar and times of the day.
C1_GetDateReturnsEncodedDates ==
    ( /\ gd # NotCalled
      /\ MatchesGrammar(filename)
      /\ IsCalendar(GrammarField(filename, "start_date"),
                    GrammarField(filename, "start_time"))
      /\ IsCalendar(GrammarField(filename, "end_date"),
                    GrammarField(filename, "end_time")) )
    => IF start_only
       THEN gd = [type |-> "date", msg |-> "",
                  out |-> <<EncodedDate(GrammarField(filename, "start_date"))>>]
       ELSE gd = [type |-> "pair", msg |-> "",
                  out |-> <<EncodedDate(GrammarField(filename, "start_date")),
                            EncodedDate(GrammarField(filename, "end_date"))>>]

----------------------------------------------------------------------------
(* C2 *)

\* C2: a call with a polar value outside {VV, VH}, single or in a list, always
\* ends in a ValueError raised by validation, in point mode and in region mode
\* and whatever stats is.
C2_PolarOutsideRejected ==
    (pc # "idle" /\ PolarOutside(args))
    => (pc = "done" /\ result.type = "ValueError" /\ result.msg \in ValidationMessages)

----------------------------------------------------------------------------
(* C3 *)

\* C3: whenever the query matched zero images, ts_extract ends in a ValueError,
\* in point mode and in region mode; it never returns an empty sequence.
C3_NoImagesIsError ==
    (pc = "done" /\ matched = Some(0)) => result.type = "ValueError"

----------------------------------------------------------------------------
(* C4 *)

\* C4: a failure of getInfo other than the no-data condition reaches the caller
\* unchanged; only the no-data failure becomes a ValueError.
C4_OtherFailuresPropagate ==
    (pc = "done" /\ reply.kind \notin {"none", "ok"})
    => IF reply.reason = "nodata"
       THEN result.type = "ValueError"
       ELSE result = Raise(reply.kind, reply.reason)

----------------------------------------------------------------------------
(* C5 *)

\* C5: a call in which mode, polar, orbit or (in region mode) stats is outside
\* its allowed set ends in a ValueError, and no getInfo was issued before it.
C5_InvalidParameterFailsFast ==
    ( /\ pc # "idle"
      /\ \/ ~ModeAllowed(args)
         \/ PolarOutside(args)
         \/ ~OrbitAllowed(args)
         \/ (RegionCall(args) /\ ~StatsAllowed(args)) )
    => (pc = "done" /\ result.type = "ValueError" /\ requests = 0)

----------------------------------------------------------------------------
(* C6 *)

\* C6: the orbit-pass filter of the query depends on orbit alone: none when
\* orbit is unset, 'ASCENDING' for 0, 'DESCENDING' for 1; any other orbit ends
\* in a ValueError with no query executed, whatever the spatial parameters.
C6_OrbitFilter ==
    /\ (pc # "idle" /\ query.built)
       => query.orbitPass =
            (IF args.orbit = None THEN None
             ELSE IF args.orbit = Some(0) THEN Some("ASCENDING")
             ELSE Some("DESCENDING"))
    /\ (pc # "idle" /\ ~OrbitAllowed(args))
       => (RejectedByValidation /\ ~query.built)

\* an ascending-orbit call blocked in getInfo
C6_Witness ==
    /\ pc = "request"
    /\ args.orbit = Some(0)
    /\ query.orbitPass = Some("ASCENDING")
    /\ args.radius # None

----------------------------------------------------------------------------
(* C7 *)

----------------------------------------------------------------------------
(* C8 *)

\* C8: a call without `end` filters up to the current date at the time of that
\* call, for every call of a sequence, also on a later day than the day the
\* module was loaded.
C8_DefaultEndIsDayOfCall ==
    (pc = "request" /\ args.end = None) => query.endDate = today

----------------------------------------------------------------------------
(* C9 *)

\* C9: for every string that does not match the documented grammar exactly,
\* get_date raises ValueError and returns no date.
C9_NonMatchingIsRejected ==
    (gd # NotCalled /\ ~MatchesGrammar(filename)) => gd.type = "ValueError"

----------------------------------------------------------------------------
(* C10 *)

\* C10: region mode is taken exactly when radius or feature is given; with both
\* given the call is not rejected, the geometry is the feature's polygon, and
\* radius, lon and lat have no effect on the query.
C10_SpatialBranch ==
    /\ (pc # "idle" /\ query.built)
       => /\ (query.kind = "region") = (args.radius # None \/ args.feature # None)
          /\ (query.kind = "point") = (args.radius = None /\ args.feature = None)
          /\ args.feature # None
             => /\ query.geometry = Polygon(args.feature)
                /\ query = BuildQuery([args EXCEPT !.radius = None, !.lon = None,
                                                   !.lat = None], EndOf(args))
    /\ ( /\ pc # "idle"
         /\ args.radius # None /\ args.feature # None
         /\ ModeAllowed(args) /\ ~PolarOutside(args) /\ OrbitAllowed(args)
         /\ StatsAllowed(args) )
       => (query.built /\ requests = 1)

\* a call with a radius and a feature, blocked in getInfo on the polygon
C10_Witness ==
    /\ pc = "request"
    /\ args.radius = Some(500) /\ args.feature # None /\ args.lon # None
    /\ query.geometry.shape = "Polygon"

====
